---- MODULE Spec2Model ----
(***************************************************************************)
(* Model of blurnet/train.py: one run of main(), from the command line to  *)
(* process exit.  Every action is one step of main(); the position in the  *)
(* script is pc.  Calls into the framework (data loader, network, blur,    *)
(* optimizer, summary writer, checkpoint writer) are modelled by the       *)
(* arguments they are called with and the order they are called in.        *)
(*                                                                         *)
(* Numbers: a loss is a small positive integer, "x / y" of Python 3 (true  *)
(* division; os.makedirs(exist_ok=...) fixes the language at Python 3) is   *)
(* the rational <<x, y>>.                                                  *)
(***************************************************************************)
EXTENDS Integers, Sequences, FiniteSets, TLC

\* ---- bounds of the model ----
MaxEpochs == 2
MaxTrainData == 3
MaxTestData == 2
MaxBatchSize == 2

\* ---- defaults of the argument parser ----
DefaultExpName == ""
DefaultKernelSize == <<3, 3>>
DefaultSigma == 1
DefaultSeed == 42
DefaultLr == <<1, 100>>
DefaultWeightDecay == <<5, 10000>>

Omitted == "omitted"
NoArgs == [parsed |-> FALSE]

\* <<>> stands for an option that is not given
KernelSizes == {<<>>, <<5, 5>>}
ExpNames == {Omitted, "", "exp"}

\* What the network can produce on a batch: loss.item() and the number of
\* correct predictions.
BatchOutcomes(size) == {[loss |-> 1, correct |-> size], [loss |-> 2, correct |-> 0]}

\* What an earlier run under the same experiment name leaves on disk.
\* "result_path" stands for the file the name RESULT_PATH designates.
FreshFS == {}
UsedFS == {"outputs_dir", "model_dir", "log_file", "tb_dir", "result_path"}

VARIABLES
    argv,            \* the command line
    resultPathBound, \* whether the global name RESULT_PATH resolves
    fs0,             \* the file system when the run starts
    datasets,        \* sizes of the train and test sets on disk
    pc,              \* position in the script
    args,            \* the namespace returned by parse_args()
    fs,              \* existing paths
    stdout,          \* what sys.stdout / sys.stderr point to
    console,         \* messages written to the terminal
    logfile,         \* messages written to OUTPUT_PATH by this run
    logOpenedW,      \* OUTPUT_PATH has been opened with mode 'w'
    exitKind,        \* how the process ended
    writer,          \* SummaryWriter: "none", "open", "closed"
    scalars,         \* add_scalar calls, in order
    device,          \* torch.device of line 65
    rngSeed,         \* seed given to the random number generators
    loaders,         \* trainloader / testloader
    numbatch,        \* num_trainbatch, num_testbatch
    epoch,           \* loop variable of line 101
    acc,             \* train_loss, train_acc, val_loss, val_acc
    seen,            \* sums of what the batches of the current epoch produced
    netMode,         \* "none", "built", "train", "eval"
    params,          \* number of optimizer updates applied to the parameters
    iterPos,         \* batches already taken from the loader being iterated
    cur,             \* the batch being processed
    forwards,        \* the forward passes made: phase and blurs applied
    checkpoints      \* save_checkpoint calls, in order

envVars == <<argv, resultPathBound, fs0, datasets>>
ioVars == <<fs, stdout, console, logfile, logOpenedW, exitKind>>
logVars == <<writer, scalars>>
setupVars == <<device, rngSeed, loaders, numbatch>>
loopVars == <<epoch, acc, seen, netMode, params, iterPos, cur, forwards, checkpoints>>
vars == <<envVars, pc, args, ioVars, logVars, setupVars, loopVars>>

\* ---- pure helpers ----

\* argparse: an omitted option takes its default (lines 17-36).
parse_args(a) ==
    [parsed |-> TRUE,
     no_cuda |-> a.no_cuda,
     seed |-> DefaultSeed,
     exp_name |-> IF a.exp_name = Omitted THEN DefaultExpName ELSE a.exp_name,
     normal |-> a.normal,
     kernel_size |-> IF a.kernel_size = <<>> THEN DefaultKernelSize ELSE a.kernel_size,
     sigma |-> DefaultSigma,
     epochs |-> a.epochs,
     batch_size |-> a.batch_size,
     lr |-> DefaultLr,
     weight_decay |-> DefaultWeightDecay]

\* The fields of the run configuration.
Config(a) ==
    [seed |-> a.seed, batch_size |-> a.batch_size, lr |-> a.lr,
     weight_decay |-> a.weight_decay, epochs |-> a.epochs,
     kernel_size |-> a.kernel_size, sigma |-> a.sigma, normal |-> a.normal,
     exp_name |-> a.exp_name]

\* Number of batches a loader yields: one per batch_size samples, the last
\* one partial.
NumBatches(d, b) == (d + b - 1) \div b

\* Size of the i-th batch (0-based) of a loader.
BatchSize(ld, i) ==
    IF (i + 1) * ld.batch_size <= ld.dataset THEN ld.batch_size
    ELSE ld.dataset - i * ld.batch_size

\* -(-x / y) in Python 3: "/" is true division, the two negations cancel.
NegNegDiv(x, y) == <<x, y>>

\* A rational <<n, d>> equals the integer k.
RatEq(q, k) == q[1] = k * q[2]

print(msg) ==
    IF stdout = "console"
    THEN console' = Append(console, msg) /\ UNCHANGED logfile
    ELSE logfile' = Append(logfile, msg) /\ UNCHANGED console

NoBatch == [phase |-> "none"]

\* ---- initial state: before main() is entered ----
\* train.py binds the name RESULT_PATH nowhere, so a run of the script has
\* resultPathBound = FALSE and ends at line 52.  resultPathBound = TRUE is
\* main() called with that name bound in the module's globals, to the result
\* file of the experiment; lines 53-164 execute in no other way.
Init ==
    /\ argv \in [exp_name : ExpNames, normal : BOOLEAN, no_cuda : BOOLEAN,
                 kernel_size : KernelSizes, epochs : 0..MaxEpochs,
                 batch_size : 1..MaxBatchSize]
    /\ resultPathBound \in BOOLEAN
    /\ fs0 \in {FreshFS, UsedFS}
    /\ datasets \in [train : 1..MaxTrainData, test : 1..MaxTestData]
    /\ pc = "parse"
    /\ args = NoArgs
    /\ fs = fs0
    /\ stdout = "console"
    /\ console = <<>>
    /\ logfile = <<>>
    /\ logOpenedW = FALSE
    /\ exitKind = "running"
    /\ writer = "none"
    /\ scalars = <<>>
    /\ device = "none"
    /\ rngSeed = 0
    /\ iterPos = 0
    /\ loaders = [train |-> [dataset |-> 0, batch_size |-> 0],
                  test |-> [dataset |-> 0, batch_size |-> 0]]
    /\ numbatch = [train |-> <<0, 1>>, test |-> <<0, 1>>]
    /\ epoch = 0
    /\ acc = [train_loss |-> 0, train_acc |-> 0, val_loss |-> 0, val_acc |-> 0]
    /\ seen = [train_loss |-> 0, train_acc |-> 0, val_loss |-> 0, val_acc |-> 0]
    /\ netMode = "none"
    /\ params = 0
    /\ cur = NoBatch
    /\ forwards = {}
    /\ checkpoints = <<>>

\* ---- startup: lines 39-61 ----

\* line 39
ParseArgs ==
    /\ pc = "parse"
    /\ args' = parse_args(argv)
    /\ pc' = "check_name"
    /\ UNCHANGED <<envVars, ioVars, logVars, setupVars, loopVars>>

\* ExitNoName without the sys.exit() of line 42: falls through to lines 45-49
ExitNoName_NoExit ==
    /\ pc = "check_name"
    /\ args.exp_name = ""
    /\ print("ERROR: USE --exp-name")
    /\ fs' = fs \cup {"outputs_dir", "model_dir"}
    /\ pc' = "check_dup"
    /\ UNCHANGED <<envVars, args, stdout, logOpenedW, exitKind, logVars,
                   setupVars, loopVars>>

\* lines 40-42
ExitNoName ==
    /\ pc = "check_name"
    /\ args.exp_name = ""
    /\ print("ERROR: USE --exp-name")
    /\ exitKind' = "sys.exit"
    /\ pc' = "exited"
    /\ UNCHANGED <<envVars, args, fs, stdout, logOpenedW, logVars, setupVars, loopVars>>

\* lines 45-49
MakeDirs ==
    /\ pc = "check_name"
    /\ args.exp_name # ""
    /\ fs' = fs \cup {"outputs_dir", "model_dir"}
    /\ pc' = "check_dup"
    /\ UNCHANGED <<envVars, args, stdout, console, logfile, logOpenedW, exitKind,
                   logVars, setupVars, loopVars>>

\* line 52, RESULT_PATH not bound: NameError, uncaught, traceback on stderr
RaiseNameError ==
    /\ pc = "check_dup"
    /\ ~resultPathBound
    /\ print("NameError: RESULT_PATH")
    /\ exitKind' = "NameError"
    /\ pc' = "exited"
    /\ UNCHANGED <<envVars, args, fs, stdout, logOpenedW, logVars, setupVars, loopVars>>

\* lines 52-54
ExitDuplicate ==
    /\ pc = "check_dup"
    /\ resultPathBound
    /\ "result_path" \in fs
    /\ print("ERROR: This --exp-name is already used")
    /\ exitKind' = "sys.exit"
    /\ pc' = "exited"
    /\ UNCHANGED <<envVars, args, fs, stdout, logOpenedW, logVars, setupVars, loopVars>>

\* lines 52, 57-58
RedirectOutput ==
    /\ pc = "check_dup"
    /\ resultPathBound
    /\ "result_path" \notin fs
    /\ fs' = fs \cup {"log_file"}
    /\ logfile' = <<>>
    /\ logOpenedW' = TRUE
    /\ stdout' = "log"
    /\ pc' = "open_writer"
    /\ UNCHANGED <<envVars, args, console, exitKind, logVars, setupVars, loopVars>>

\* line 61
OpenWriter ==
    /\ pc = "open_writer"
    /\ writer' = "open"
    /\ fs' = fs \cup {"tb_dir"}
    /\ pc' = "cuda"
    /\ UNCHANGED <<envVars, args, stdout, console, logfile, logOpenedW, exitKind,
                   scalars, setupVars, loopVars>>

\* ---- construction: lines 64-100 ----

\* CudaSettings storing its result in the attribute "normal"
CudaSettings_WrongField ==
    /\ pc = "cuda"
    /\ \E available \in BOOLEAN :
         LET c == ~args.no_cuda /\ available IN
           /\ args' = [args EXCEPT !.normal = c] @@ [cuda |-> c]
           /\ device' = IF c THEN "cuda:0" ELSE "cpu"
    /\ print("device")
    /\ rngSeed' = args.seed
    /\ pc' = "data"
    /\ UNCHANGED <<envVars, fs, stdout, logOpenedW, exitKind, logVars,
                   loaders, numbatch, loopVars>>

\* lines 64-71
CudaSettings ==
    /\ pc = "cuda"
    /\ \E available \in BOOLEAN :
         LET c == ~args.no_cuda /\ available IN
           /\ args' = args @@ [cuda |-> c]
           /\ device' = IF c THEN "cuda:0" ELSE "cpu"
    /\ print("device")
    /\ rngSeed' = args.seed
    /\ pc' = "data"
    /\ UNCHANGED <<envVars, fs, stdout, logOpenedW, exitKind, logVars,
                   loaders, numbatch, loopVars>>

\* line 74
BuildLoaders ==
    /\ pc = "data"
    /\ loaders' = [train |-> [dataset |-> datasets.train, batch_size |-> args.batch_size],
                   test |-> [dataset |-> datasets.test, batch_size |-> args.batch_size]]
    /\ pc' = "model"
    /\ UNCHANGED <<envVars, args, ioVars, logVars, device, rngSeed, numbatch, loopVars>>

\* lines 77-79
BuildModel ==
    /\ pc = "model"
    /\ netMode' = "built"
    /\ params' = 0
    /\ pc' = "settings"
    /\ UNCHANGED <<envVars, args, ioVars, logVars, setupVars,
                   epoch, acc, seen, iterPos, cur, forwards, checkpoints>>

\* lines 82-94
PrintSettings ==
    /\ pc = "settings"
    /\ print(IF ~args.normal THEN "settings: Blur" ELSE "settings: Normal")
    /\ pc' = "numbatch"
    /\ UNCHANGED <<envVars, args, fs, stdout, logOpenedW, exitKind, logVars,
                   setupVars, loopVars>>

\* lines 97-100
ComputeNumBatches ==
    /\ pc = "numbatch"
    /\ numbatch' = [train |-> NegNegDiv(loaders.train.dataset, loaders.train.batch_size),
                    test |-> NegNegDiv(loaders.test.dataset, loaders.test.batch_size)]
    /\ print("Start Training...")
    /\ epoch' = 0
    /\ pc' = "epoch_loop"
    /\ UNCHANGED <<envVars, args, fs, stdout, logOpenedW, exitKind, logVars,
                   device, rngSeed, loaders,
                   acc, seen, netMode, params, iterPos, cur, forwards, checkpoints>>

\* ---- epoch loop: lines 101-158 ----

Zeros == [train_loss |-> 0, train_acc |-> 0, val_loss |-> 0, val_acc |-> 0]

\* EpochStart with the reset of line 102 missing
EpochStart_NoReset ==
    /\ pc = "epoch_loop"
    /\ epoch < args.epochs
    /\ seen' = Zeros
    /\ netMode' = "train"
    /\ iterPos' = 0
    /\ cur' = NoBatch
    /\ pc' = "train_loop"
    /\ UNCHANGED <<envVars, args, ioVars, logVars, setupVars,
                   epoch, acc, params, forwards, checkpoints>>

\* lines 101-106: next epoch, accumulators reset, train mode, iterator opened
EpochStart ==
    /\ pc = "epoch_loop"
    /\ epoch < args.epochs
    /\ acc' = Zeros
    /\ seen' = Zeros
    /\ netMode' = "train"
    /\ iterPos' = 0
    /\ cur' = NoBatch
    /\ pc' = "train_loop"
    /\ UNCHANGED <<envVars, args, ioVars, logVars, setupVars,
                   epoch, params, forwards, checkpoints>>

NewBatch(phase, ld, i) ==
    [phase |-> phase, idx |-> i, size |-> BatchSize(ld, i), blurs |-> <<>>,
     zero_grad |-> 0, forward |-> 0, backward |-> 0, step |-> 0]

\* lines 106-108
TrainFetch ==
    /\ pc = "train_loop"
    /\ iterPos < NumBatches(loaders.train.dataset, loaders.train.batch_size)
    /\ cur' = NewBatch("train", loaders.train, iterPos)
    /\ pc' = "blur"
    /\ UNCHANGED <<envVars, args, ioVars, logVars, setupVars,
                   epoch, acc, seen, netMode, params, iterPos, forwards, checkpoints>>

\* lines 111-114
BlurImages ==
    /\ pc = "blur"
    /\ cur' = IF ~args.normal
              THEN [cur EXCEPT !.blurs = Append(@, [kernel_size |-> args.kernel_size,
                                                     sigma |-> args.sigma])]
              ELSE cur
    /\ pc' = "zero_grad"
    /\ UNCHANGED <<envVars, args, ioVars, logVars, setupVars,
                   epoch, acc, seen, netMode, params, iterPos, forwards, checkpoints>>

\* line 117
ZeroGrad ==
    /\ pc = "zero_grad"
    /\ cur' = [cur EXCEPT !.zero_grad = @ + 1]
    /\ pc' = "forward"
    /\ UNCHANGED <<envVars, args, ioVars, logVars, setupVars,
                   epoch, acc, seen, netMode, params, iterPos, forwards, checkpoints>>

\* lines 120-123
TrainForward ==
    /\ pc = "forward"
    /\ \E out \in BatchOutcomes(cur.size) :
         /\ acc' = [acc EXCEPT !.train_loss = @ + out.loss, !.train_acc = @ + out.correct]
         /\ seen' = [seen EXCEPT !.train_loss = @ + out.loss, !.train_acc = @ + out.correct]
    /\ cur' = [cur EXCEPT !.forward = @ + 1]
    /\ forwards' = forwards \cup {[phase |-> cur.phase, mode |-> netMode, blurs |-> cur.blurs]}
    /\ pc' = "backward"
    /\ UNCHANGED <<envVars, args, ioVars, logVars, setupVars,
                   epoch, netMode, params, iterPos, checkpoints>>

\* line 124
Backward ==
    /\ pc = "backward"
    /\ cur' = [cur EXCEPT !.backward = @ + 1]
    /\ pc' = "step"
    /\ UNCHANGED <<envVars, args, ioVars, logVars, setupVars,
                   epoch, acc, seen, netMode, params, iterPos, forwards, checkpoints>>

\* line 125
OptimizerStep ==
    /\ pc = "step"
    /\ params' = params + 1
    /\ cur' = [cur EXCEPT !.step = @ + 1]
    /\ iterPos' = iterPos + 1
    /\ pc' = "train_loop"
    /\ UNCHANGED <<envVars, args, ioVars, logVars, setupVars,
                   epoch, acc, seen, netMode, forwards, checkpoints>>

Scalar(tag, sum, divisor, step) ==
    [tag |-> tag, sum |-> sum, divisor |-> divisor, step |-> step]

\* LogTrain writing the four scalars at once, before the validation pass
LogTrain_AllFour ==
    /\ pc = "train_loop"
    /\ iterPos = NumBatches(loaders.train.dataset, loaders.train.batch_size)
    /\ writer = "open"
    /\ scalars' = scalars \o
          <<Scalar("loss/train", acc.train_loss, numbatch.train, epoch + 1),
            Scalar("acc/train", acc.train_acc, <<loaders.train.dataset, 1>>, epoch + 1),
            Scalar("loss/val", acc.val_loss, numbatch.test, epoch + 1),
            Scalar("acc/val", acc.val_acc, <<loaders.test.dataset, 1>>, epoch + 1)>>
    /\ pc' = "eval"
    /\ UNCHANGED <<envVars, args, ioVars, writer, setupVars, loopVars>>

\* lines 128-129
LogTrain ==
    /\ pc = "train_loop"
    /\ iterPos = NumBatches(loaders.train.dataset, loaders.train.batch_size)
    /\ writer = "open"
    /\ scalars' = scalars \o
          <<Scalar("loss/train", acc.train_loss, numbatch.train, epoch + 1),
            Scalar("acc/train", acc.train_acc, <<loaders.train.dataset, 1>>, epoch + 1)>>
    /\ pc' = "eval"
    /\ UNCHANGED <<envVars, args, ioVars, writer, setupVars, loopVars>>

\* lines 132-134
EvalMode ==
    /\ pc = "eval"
    /\ netMode' = "eval"
    /\ iterPos' = 0
    /\ pc' = "val_loop"
    /\ UNCHANGED <<envVars, args, ioVars, logVars, setupVars,
                   epoch, acc, seen, params, cur, forwards, checkpoints>>

\* ValBatch with the blur of lines 137-140 switched on
ValBatch_Blur ==
    /\ pc = "val_loop"
    /\ iterPos < NumBatches(loaders.test.dataset, loaders.test.batch_size)
    /\ LET b0 == NewBatch("val", loaders.test, iterPos)
           b == IF ~args.normal
                THEN [b0 EXCEPT !.blurs = Append(@, [kernel_size |-> args.kernel_size,
                                                      sigma |-> args.sigma])]
                ELSE b0 IN
         /\ \E out \in BatchOutcomes(b.size) :
              /\ acc' = [acc EXCEPT !.val_loss = @ + out.loss, !.val_acc = @ + out.correct]
              /\ seen' = [seen EXCEPT !.val_loss = @ + out.loss, !.val_acc = @ + out.correct]
         /\ cur' = [b EXCEPT !.forward = 1]
         /\ forwards' = forwards \cup {[phase |-> "val", mode |-> netMode, blurs |-> b.blurs]}
    /\ iterPos' = iterPos + 1
    /\ UNCHANGED <<envVars, pc, args, ioVars, logVars, setupVars,
                   epoch, netMode, params, checkpoints>>

\* ValBatch with a backward pass and an optimizer step, as in the training pass
ValBatch_Step ==
    /\ pc = "val_loop"
    /\ iterPos < NumBatches(loaders.test.dataset, loaders.test.batch_size)
    /\ LET b == NewBatch("val", loaders.test, iterPos) IN
         /\ \E out \in BatchOutcomes(b.size) :
              /\ acc' = [acc EXCEPT !.val_loss = @ + out.loss, !.val_acc = @ + out.correct]
              /\ seen' = [seen EXCEPT !.val_loss = @ + out.loss, !.val_acc = @ + out.correct]
         /\ cur' = [b EXCEPT !.forward = 1, !.backward = 1, !.step = 1]
         /\ forwards' = forwards \cup {[phase |-> "val", mode |-> netMode, blurs |-> b.blurs]}
    /\ params' = params + 1
    /\ iterPos' = iterPos + 1
    /\ UNCHANGED <<envVars, pc, args, ioVars, logVars, setupVars,
                   epoch, netMode, checkpoints>>

\* lines 134-145
ValBatch ==
    /\ pc = "val_loop"
    /\ iterPos < NumBatches(loaders.test.dataset, loaders.test.batch_size)
    /\ LET b == NewBatch("val", loaders.test, iterPos) IN
         /\ \E out \in BatchOutcomes(b.size) :
              /\ acc' = [acc EXCEPT !.val_loss = @ + out.loss, !.val_acc = @ + out.correct]
              /\ seen' = [seen EXCEPT !.val_loss = @ + out.loss, !.val_acc = @ + out.correct]
         /\ cur' = [b EXCEPT !.forward = 1]
         /\ forwards' = forwards \cup {[phase |-> "val", mode |-> netMode, blurs |-> b.blurs]}
    /\ iterPos' = iterPos + 1
    /\ UNCHANGED <<envVars, pc, args, ioVars, logVars, setupVars,
                   epoch, netMode, params, checkpoints>>

\* lines 148-149
LogVal ==
    /\ pc = "val_loop"
    /\ iterPos = NumBatches(loaders.test.dataset, loaders.test.batch_size)
    /\ writer = "open"
    /\ scalars' = scalars \o
          <<Scalar("loss/val", acc.val_loss, numbatch.test, epoch + 1),
            Scalar("acc/val", acc.val_acc, <<loaders.test.dataset, 1>>, epoch + 1)>>
    /\ pc' = "save"
    /\ UNCHANGED <<envVars, args, ioVars, writer, setupVars, loopVars>>

\* lines 153-158, then back to line 101
SaveCheckpoint ==
    /\ pc = "save"
    /\ checkpoints' = Append(checkpoints,
          [state |-> [epoch |-> epoch + 1, arch |-> "alexnet",
                      state_dict |-> params, optimizer |-> params],
           path |-> "model_dir", index |-> epoch + 1])
    /\ epoch' = epoch + 1
    /\ pc' = "epoch_loop"
    /\ UNCHANGED <<envVars, args, ioVars, logVars, setupVars,
                   acc, seen, netMode, params, iterPos, cur, forwards>>

\* ---- teardown: lines 160-172 ----

\* lines 160-164
Finish ==
    /\ pc = "epoch_loop"
    /\ epoch >= args.epochs
    /\ print("Finished Training")
    /\ writer' = "closed"
    /\ pc' = "epilogue"
    /\ UNCHANGED <<envVars, args, fs, stdout, logOpenedW, exitKind, scalars,
                   setupVars, loopVars>>

\* lines 169-172: main() has returned
Epilogue ==
    /\ pc = "epilogue"
    /\ print("Total run time")
    /\ exitKind' = "returned"
    /\ pc' = "exited"
    /\ UNCHANGED <<envVars, args, fs, stdout, logOpenedW, logVars, setupVars, loopVars>>

Next ==
    \/ ParseArgs
    \/ ExitNoName
    \/ MakeDirs
    \/ RaiseNameError
    \/ ExitDuplicate
    \/ RedirectOutput
    \/ OpenWriter
    \/ CudaSettings
    \/ BuildLoaders
    \/ BuildModel
    \/ PrintSettings
    \/ ComputeNumBatches
    \/ EpochStart
    \/ TrainFetch
    \/ BlurImages
    \/ ZeroGrad
    \/ TrainForward
    \/ Backward
    \/ OptimizerStep
    \/ LogTrain
    \/ EvalMode
    \/ ValBatch
    \/ LogVal
    \/ SaveCheckpoint
    \/ Finish
    \/ Epilogue

Spec == Init /\ [][Next]_vars

\* ======================= properties =======================

TrainBatches == NumBatches(loaders.train.dataset, loaders.train.batch_size)
TestBatches == NumBatches(loaders.test.dataset, loaders.test.batch_size)

\* the run was given a non-empty experiment name
Named == args.parsed /\ args.exp_name # ""

InTrainPass == pc \in {"train_loop", "blur", "zero_grad", "forward", "backward", "step"}
AfterTrainPass == pc \in {"eval", "val_loop", "save"}
InEpoch == InTrainPass \/ AfterTrainPass

\* the training / validation pass of epoch k (1-based) is over
TrainFinished(k) ==
    \/ epoch >= k
    \/ epoch = k - 1 /\ (AfterTrainPass \/ (pc = "train_loop" /\ iterPos = TrainBatches))
ValFinished(k) ==
    \/ epoch >= k
    \/ epoch = k - 1 /\ (pc = "save" \/ (pc = "val_loop" /\ iterPos = TestBatches))

Tags(k) == {scalars[i].tag : i \in {j \in 1..Len(scalars) : scalars[j].step = k}}

\* C1: a run with a non-empty, unused experiment name ends by returning from
\* main() after exactly args.epochs epochs, with 'Finished Training' printed
\* and the metrics writer closed; it never ends before the epoch loop.
C1_RunCompletes ==
    (pc = "exited" /\ Named /\ fs0 = FreshFS) =>
        /\ exitKind = "returned"
        /\ epoch = args.epochs
        /\ Len(scalars) = 4 * args.epochs
        /\ \E i \in 1..Len(logfile) : logfile[i] = "Finished Training"
        /\ writer = "closed"

\* C2: a run whose experiment name is already in use ends through the
\* duplicate-name check: the 'already used' message is printed, the process
\* leaves through sys.exit(), and before that the log file is not opened for
\* writing, no batch is processed and no checkpoint is written.
C2_DuplicateExit ==
    (Named /\ fs0 = UsedFS) =>
        /\ ~logOpenedW
        /\ forwards = {}
        /\ checkpoints = <<>>
        /\ pc = "exited" =>
             /\ exitKind = "sys.exit"
             /\ console = <<"ERROR: This --exp-name is already used">>

\* C3: with --exp-name omitted or empty the run prints the 'USE --exp-name'
\* message and leaves through sys.exit() with no side effect: no directory
\* created, no redirection, no metrics writer, no batch, no checkpoint.
C3_NoNameExit ==
    (args.parsed /\ args.exp_name = "") =>
        /\ pc \in {"check_name", "exited"}
        /\ fs = fs0
        /\ stdout = "console"
        /\ ~logOpenedW
        /\ logfile = <<>>
        /\ writer = "none"
        /\ scalars = <<>>
        /\ forwards = {}
        /\ checkpoints = <<>>
        /\ pc = "exited" =>
             /\ exitKind = "sys.exit"
             /\ console = <<"ERROR: USE --exp-name">>

C3_Witness ==
    /\ pc = "exited"
    /\ argv.exp_name = Omitted
    /\ args.exp_name = ""
    /\ exitKind = "sys.exit"
    /\ console = <<"ERROR: USE --exp-name">>

\* C4: a run with --epochs N (name given and unused) has called
\* save_checkpoint exactly N times when it ends, the k-th call carrying k as
\* the epoch of the record and as the file index.
C4_OneCheckpointPerEpoch ==
    /\ \A k \in 1..Len(checkpoints) :
         checkpoints[k].state.epoch = k /\ checkpoints[k].index = k
    /\ (pc = "exited" /\ Named /\ fs0 = FreshFS) => Len(checkpoints) = args.epochs

\* C5 as stated: no scalar of an epoch is written before the validation pass
\* of that epoch has finished.
C5_NoScalarBeforeValidation ==
    \A i \in 1..Len(scalars) : ValFinished(scalars[i].step)

\* C5 amended: in every epoch the training pass comes first, then the two
\* training scalars, then the validation pass, then the two validation
\* scalars, then the checkpoint: a training scalar of epoch k is written only
\* after the training pass of k, a validation batch of k is processed only
\* after the training scalars of k are written, a validation scalar of k is
\* written only after the validation pass of k, and the checkpoint of k is
\* saved only after the four scalars of k.
C5_EpochOrder ==
    /\ \A i \in 1..Len(scalars) :
         /\ scalars[i].tag \in {"loss/train", "acc/train"} => TrainFinished(scalars[i].step)
         /\ scalars[i].tag \in {"loss/val", "acc/val"} => ValFinished(scalars[i].step)
    /\ (InEpoch /\ cur.phase = "val") =>
         /\ {"loss/train", "acc/train"} \subseteq Tags(epoch + 1)
         /\ TrainFinished(epoch + 1)
    /\ \A k \in 1..Len(checkpoints) :
         Tags(checkpoints[k].state.epoch) = {"loss/train", "acc/train", "loss/val", "acc/val"}

C5_Witness ==
    /\ pc = "epoch_loop"
    /\ epoch = 2
    /\ Len(checkpoints) = 2
    /\ Len(scalars) = 8
    /\ TestBatches = 2

\* C6: the four accumulators are zero when an epoch starts and never shrink
\* within an epoch, and they, and every scalar logged for the current epoch,
\* hold exactly what the batches of the current epoch produced.
C6_Inv ==
    /\ InEpoch => acc = seen
    /\ (pc = "train_loop" /\ iterPos = 0) => acc = Zeros
    /\ InEpoch => \A i \in 1..Len(scalars) :
         scalars[i].step = epoch + 1 =>
            scalars[i].sum = CASE scalars[i].tag = "loss/train" -> seen.train_loss
                               [] scalars[i].tag = "acc/train" -> seen.train_acc
                               [] scalars[i].tag = "loss/val" -> seen.val_loss
                               [] scalars[i].tag = "acc/val" -> seen.val_acc

C6_Step ==
    /\ (pc = "epoch_loop" /\ pc' = "train_loop") => acc' = Zeros
    /\ pc # "epoch_loop" =>
         /\ acc'.train_loss >= acc.train_loss
         /\ acc'.train_acc >= acc.train_acc
         /\ acc'.val_loss >= acc.val_loss
         /\ acc'.val_acc >= acc.val_acc

C6_AccumulatorsPerEpoch == []C6_Inv /\ [][C6_Step]_vars

C6_Witness ==
    /\ pc = "save"
    /\ epoch = 1
    /\ Len(scalars) = 8
    /\ scalars[1].sum > 0
    /\ scalars[5].sum > 0
    /\ acc.val_acc > 0

\* C7: the parameters are updated once per training batch, after one
\* zero_grad, one forward and one backward of that batch, and never in the
\* validation pass: after the training pass of an epoch over T batches they
\* have had T updates in that epoch, and they are what the checkpoint saves.
C7_Inv ==
    /\ InTrainPass => params = epoch * TrainBatches + iterPos
    /\ AfterTrainPass => params = (epoch + 1) * TrainBatches
    /\ pc \in {"epoch_loop", "epilogue"} => params = epoch * TrainBatches
    /\ \A k \in 1..Len(checkpoints) : checkpoints[k].state.state_dict = k * TrainBatches
    /\ (InEpoch /\ cur.phase # "none") =>
         /\ cur.step <= 1
         /\ cur.step = 1 => (cur.phase = "train" /\ cur.zero_grad = 1
                             /\ cur.forward = 1 /\ cur.backward = 1)

C7_Step ==
    params' # params =>
        /\ params' = params + 1
        /\ cur.phase = "train"
        /\ cur.step = 0
        /\ cur.zero_grad = 1 /\ cur.forward = 1 /\ cur.backward = 1

C7_OneUpdatePerTrainBatch == []C7_Inv /\ [][C7_Step]_vars

C7_Witness ==
    /\ pc = "save"
    /\ epoch = 1
    /\ TrainBatches = 3
    /\ TestBatches = 2
    /\ params = 6

\* C8: once parse_args() has returned, no step changes the seed, batch size,
\* learning rate, weight decay, epoch count, kernel size, sigma, normal flag
\* or experiment name of args.
C8_ConfigUnchanged ==
    [][args.parsed => (args'.parsed /\ Config(args') = Config(args))]_vars

C8_Witness ==
    /\ pc = "exited"
    /\ exitKind = "returned"
    /\ "cuda" \in DOMAIN args
    /\ args.cuda
    /\ epoch = 2

\* C9: num_trainbatch and num_testbatch are the numbers of batches of the
\* train and test loaders, so each logged average loss is the loss sum
\* divided by the number of batches processed in the pass.
C9_DivisorIsBatchCount ==
    /\ (InEpoch \/ pc \in {"epoch_loop", "epilogue"}) =>
         /\ RatEq(numbatch.train, TrainBatches)
         /\ RatEq(numbatch.test, TestBatches)
    /\ \A i \in 1..Len(scalars) :
         /\ scalars[i].tag = "loss/train" => RatEq(scalars[i].divisor, TrainBatches)
         /\ scalars[i].tag = "loss/val" => RatEq(scalars[i].divisor, TestBatches)

\* C10: a forward pass is made on blurred inputs exactly when the batch is a
\* training batch and --normal is not set, and then the blur was applied
\* once, with the configured kernel size and sigma.
C10_BlurOnlyTrainUnlessNormal ==
    LET Expected(phase) ==
            IF phase = "train" /\ ~args.normal
            THEN <<[kernel_size |-> args.kernel_size, sigma |-> args.sigma]>>
            ELSE <<>> IN
    /\ \A f \in forwards : f.blurs = Expected(f.phase)
    /\ pc \in {"zero_grad", "forward"} => cur.blurs = Expected("train")

C10_Witness ==
    /\ args.parsed
    /\ ~args.normal
    /\ args.kernel_size = <<5, 5>>
    /\ \E f \in forwards : f.phase = "val" /\ f.blurs = <<>>
    /\ \E f \in forwards : f.phase = "train" /\ Len(f.blurs) = 1
    /\ epoch = 2
====
